---- MODULE Spec2Model ----
(***************************************************************************)
(* Model of quick_setup.py: a sequential script that probes for a virtual  *)
(* environment, (re)creates it, installs dependencies, runs three Django   *)
(* management commands and optionally launches the development server.     *)
(*                                                                         *)
(* One action per blocking step of the script (argument parsing, a prompt, *)
(* an external command, the local-IP lookup).  A KeyboardInterrupt is      *)
(* modelled where the script blocks: in parse_args, in input() and in      *)
(* subprocess.run.  input() may also hit end of input (EOFError).          *)
(* Strings typed at a prompt are sequences of characters, so that          *)
(* str.lower() is computed and not assumed.                                *)
(***************************************************************************)
EXTENDS Integers, Sequences, FiniteSets, TLC

VARIABLES
    argv,              \* the command line after the script name
    venvExists,        \* os.path.exists(venv_path) at start
    pc,                \* position of the script
    caller,            \* call site of the bootstrap/launcher pair: "skip" (118-119) or "main" (133-136)
    args,              \* result of parse_args: a function with requirements, project_dir
    locals,            \* the prompt answers bound so far, by variable name
    asked,             \* prompts for which input() was called, in order
    issued,            \* commands handed to subprocess.run, in order
    results,           \* outcome of each issued command, parallel to issued
    sock,              \* the UDP socket of get_local_ip: "none", "open", "closed"
    local_ip,          \* value returned by get_local_ip: "unset", "None", "addr"
    printed,           \* status messages printed, in order
    exitStatus,        \* << >> while running, <<n>> once the process ended with status n
    exitCause          \* why the process ended

vars == <<argv, venvExists, pc, caller, args, locals, asked, issued, results,
          sock, local_ip, printed, exitStatus, exitCause>>

----------------------------------------------------------------------------
(* Bounds and input alphabets *)

MaxAnsLen == 2

Chars == {"y", "Y", "n", "N", "o", " "}

Answers == UNION {[1..n -> Chars] : n \in 0..MaxAnsLen}

Requirements == {"reqs.txt", "dev.txt"}

ProjectDirs == {"site"}

Argvs ==
    {<< >>, <<"-h">>}
    \cup {<<r>> : r \in Requirements}
    \cup {<<r, p>> : r \in Requirements, p \in ProjectDirs}
    \cup {<<r, p, "extra">> : r \in Requirements, p \in ProjectDirs}

venv_path == "venv"

----------------------------------------------------------------------------
(* Pure helpers *)

LowerChar(c) ==
    CASE c = "Y" -> "y"
      [] c = "N" -> "n"
      [] OTHER -> c

lower(s) == [i \in DOMAIN s |-> LowerChar(s[i])]

NoArgs == [requirements |-> "", project_dir |-> ""]

NoLocals == [v \in {} |-> << >>]

Bound(v) == v \in DOMAIN locals

\* The external commands, by the string the script builds for each.
CreateCmd == [op |-> "venv", env |-> venv_path, arg |-> ""]

ActivateCmd == [op |-> "activate", env |-> venv_path, arg |-> ""]

InstallCmd(r) == [op |-> "pip_install", env |-> venv_path, arg |-> r]

ManageCmd(sub, p) == [op |-> sub, env |-> venv_path, arg |-> p]

----------------------------------------------------------------------------
(* Process exit *)

Exit(status, cause) ==
    /\ pc' = "exited"
    /\ exitStatus' = <<status>>
    /\ exitCause' = cause

\* except KeyboardInterrupt: print, sys.exit(1)
KeyboardInterruptHandler_as_130 ==
    /\ Exit(130, "interrupt")
    /\ printed' = Append(printed, "KeyboardInterrupt. Exiting...")

KeyboardInterruptHandler ==
    /\ Exit(1, "interrupt")
    /\ printed' = Append(printed, "KeyboardInterrupt. Exiting...")

\* An exception main() does not catch ends the interpreter with status 1.
UncaughtException ==
    /\ Exit(1, "uncaught")
    /\ UNCHANGED printed

Init ==
    /\ argv \in Argvs
    /\ venvExists \in BOOLEAN
    /\ pc = "parse_args"
    /\ caller = "none"
    /\ args = NoArgs
    /\ locals = NoLocals
    /\ asked = << >>
    /\ issued = << >>
    /\ results = << >>
    /\ sock = "none"
    /\ local_ip = "unset"
    /\ printed = << >>
    /\ exitStatus = << >>
    /\ exitCause = "none"

----------------------------------------------------------------------------
(* Steps of the script.  Each prompt is input(): it returns the typed line, *)
(* or raises KeyboardInterrupt (caught in main) or EOFError (not caught).   *)

Goto(label) ==
    /\ pc' = label
    /\ UNCHANGED <<exitStatus, exitCause, printed>>

\* run_command with the except branch dropped: a failed command is ignored.
run_command_ignores_failure(command, next) ==
    /\ pc # "exited"
    /\ issued' = Append(issued, command)
    /\ \E outcome \in {"ok", "fail", "interrupt"} :
        /\ results' = Append(results, outcome)
        /\ IF outcome = "interrupt" THEN KeyboardInterruptHandler ELSE next

\* subprocess.run(command, shell=True, check=True): returns on exit status 0,
\* raises CalledProcessError on a non-zero status (caught: sys.exit(1)), and
\* raises KeyboardInterrupt when interrupted (caught in main).
run_command(command, next) ==
    /\ pc # "exited"
    /\ issued' = Append(issued, command)
    /\ \E outcome \in {"ok", "fail", "interrupt"} :
        /\ results' = Append(results, outcome)
        /\ CASE outcome = "ok" -> next
             [] outcome = "fail" ->
                    /\ Exit(1, "command_failed")
                    /\ UNCHANGED printed
             [] outcome = "interrupt" -> KeyboardInterruptHandler

\* lines 120-121 with the sys.exit(0) dropped: falls through to line 124.
SkipCompleted_falls_through ==
    /\ pc' = "create"
    /\ printed' = Append(printed, "Setup completed without reinstalling the project.")
    /\ UNCHANGED <<exitStatus, exitCause>>

\* lines 120-121
SkipCompleted ==
    /\ Exit(0, "skip_completed")
    /\ printed' = Append(printed, "Setup completed without reinstalling the project.")

\* line 138, after which main() returns and the interpreter exits with 0
MainCompleted ==
    /\ Exit(0, "completed")
    /\ printed' = Append(printed, "Setup and server run completed successfully!")

\* start_django_server returns to its call site
ReturnFromLauncher ==
    IF caller = "skip" THEN SkipCompleted ELSE MainCompleted

\* argparse: -h prints the help and exits 0; a wrong number of positionals
\* is parser.error(), which exits 2; SystemExit is not caught by main.
parse_args ==
    /\ pc = "parse_args"
    /\ \/ /\ KeyboardInterruptHandler
          /\ UNCHANGED args
       \/ /\ \E i \in DOMAIN argv : argv[i] = "-h"
          /\ Exit(0, "help")
          /\ UNCHANGED <<args, printed>>
       \/ /\ \A i \in DOMAIN argv : argv[i] # "-h"
          /\ Len(argv) # 2
          /\ Exit(2, "usage")
          /\ UNCHANGED <<args, printed>>
       \/ /\ \A i \in DOMAIN argv : argv[i] # "-h"
          /\ Len(argv) = 2
          /\ args' = [requirements |-> argv[1], project_dir |-> argv[2]]
          /\ Goto("check_venv")
    /\ UNCHANGED <<argv, venvExists, caller, locals, asked, issued, results, sock, local_ip>>

\* line 113 with the test dropped for an existing environment: provisioning
\* is skipped and the script goes straight to activation.
check_venv_skips_create ==
    /\ pc = "check_venv"
    /\ Goto(IF venvExists THEN "activate" ELSE "create")
    /\ UNCHANGED <<argv, venvExists, caller, args, locals, asked, issued, results, sock, local_ip>>

\* line 113: os.path.exists(venv_path)
check_venv ==
    /\ pc = "check_venv"
    /\ Goto(IF venvExists THEN "ask_reinstall" ELSE "create")
    /\ UNCHANGED <<argv, venvExists, caller, args, locals, asked, issued, results, sock, local_ip>>

AfterReinstall_affirmative(a) ==
    Goto(IF lower(a) = <<"y">> THEN "create" ELSE "ask_run_anyway")

\* line 115: if reinstall_project.lower() == "n"
AfterReinstall(a) ==
    Goto(IF lower(a) = <<"n">> THEN "ask_run_anyway" ELSE "create")

\* lines 114-115
ask_reinstall ==
    /\ pc = "ask_reinstall"
    /\ asked' = Append(asked, "reinstall_project")
    /\ \/ \E a \in Answers :
            /\ locals' = ("reinstall_project" :> a) @@ locals
            /\ AfterReinstall(a)
       \/ /\ KeyboardInterruptHandler
          /\ UNCHANGED locals
       \/ /\ UncaughtException
          /\ UNCHANGED locals
    /\ UNCHANGED <<argv, venvExists, caller, args, issued, results, sock, local_ip>>

AfterRunAnyway_negative(a) ==
    IF lower(a) # <<"n">>
    THEN /\ caller' = "skip"
         /\ Goto("makemigrations")
    ELSE /\ SkipCompleted
         /\ UNCHANGED caller

\* line 117: if run_management_commands.lower() == "y"
AfterRunAnyway(a) ==
    IF lower(a) = <<"y">>
    THEN /\ caller' = "skip"
         /\ Goto("makemigrations")
    ELSE /\ SkipCompleted
         /\ UNCHANGED caller

\* lines 116-121
ask_run_anyway ==
    /\ pc = "ask_run_anyway"
    /\ asked' = Append(asked, "run_management_commands")
    /\ \/ \E a \in Answers :
            /\ locals' = ("run_management_commands" :> a) @@ locals
            /\ AfterRunAnyway(a)
       \/ /\ KeyboardInterruptHandler
          /\ UNCHANGED <<locals, caller>>
       \/ /\ UncaughtException
          /\ UNCHANGED <<locals, caller>>
    /\ UNCHANGED <<argv, venvExists, args, issued, results, sock, local_ip>>

\* line 124, create_virtual_environment
create_virtual_environment ==
    /\ pc = "create"
    /\ run_command(CreateCmd, Goto("activate"))
    /\ UNCHANGED <<argv, venvExists, caller, args, locals, asked, sock, local_ip>>

\* the activation step left out: no command, straight to the installer
activate_virtual_environment_omitted ==
    /\ pc = "activate"
    /\ Goto("install")
    /\ UNCHANGED <<argv, venvExists, caller, args, locals, asked, issued, results, sock, local_ip>>

\* line 127, activate_virtual_environment
activate_virtual_environment ==
    /\ pc = "activate"
    /\ run_command(ActivateCmd, Goto("install"))
    /\ UNCHANGED <<argv, venvExists, caller, args, locals, asked, sock, local_ip>>

\* line 130, install_dependencies; line 133 then calls the bootstrapper
install_dependencies ==
    /\ pc = "install"
    /\ run_command(InstallCmd(args.requirements), Goto("makemigrations"))
    /\ caller' = "main"
    /\ UNCHANGED <<argv, venvExists, args, locals, asked, sock, local_ip>>

\* run_initial_management_commands, line 79
makemigrations ==
    /\ pc = "makemigrations"
    /\ run_command(ManageCmd("makemigrations", args.project_dir), Goto("migrate"))
    /\ UNCHANGED <<argv, venvExists, caller, args, locals, asked, sock, local_ip>>

\* run_initial_management_commands, line 80
migrate ==
    /\ pc = "migrate"
    /\ run_command(ManageCmd("migrate", args.project_dir), Goto("collectstatic"))
    /\ UNCHANGED <<argv, venvExists, caller, args, locals, asked, sock, local_ip>>

\* run_initial_management_commands, line 81; the launcher is called next
collectstatic ==
    /\ pc = "collectstatic"
    /\ run_command(ManageCmd("collectstatic", args.project_dir), Goto("ask_start"))
    /\ UNCHANGED <<argv, venvExists, caller, args, locals, asked, sock, local_ip>>

\* line 86: if start_server.lower() == "y"
AfterStart(a) ==
    IF lower(a) = <<"y">> THEN Goto("ask_expose") ELSE ReturnFromLauncher

\* start_django_server, lines 85-86
ask_start ==
    /\ pc = "ask_start"
    /\ asked' = Append(asked, "start_server")
    /\ \/ \E a \in Answers :
            /\ locals' = ("start_server" :> a) @@ locals
            /\ AfterStart(a)
       \/ /\ KeyboardInterruptHandler
          /\ UNCHANGED locals
       \/ /\ UncaughtException
          /\ UNCHANGED locals
    /\ UNCHANGED <<argv, venvExists, caller, args, issued, results, sock, local_ip>>

AfterExpose_case_sensitive(a) ==
    Goto(IF a = <<"y">> THEN "get_local_ip" ELSE "runserver")

\* line 88: if expose_to_network.lower() == "y"
AfterExpose(a) ==
    Goto(IF lower(a) = <<"y">> THEN "get_local_ip" ELSE "runserver")

\* start_django_server, lines 87-88
ask_expose ==
    /\ pc = "ask_expose"
    /\ asked' = Append(asked, "expose_to_network")
    /\ \/ \E a \in Answers :
            /\ locals' = ("expose_to_network" :> a) @@ locals
            /\ AfterExpose(a)
       \/ /\ KeyboardInterruptHandler
          /\ UNCHANGED locals
       \/ /\ UncaughtException
          /\ UNCHANGED locals
    /\ UNCHANGED <<argv, venvExists, caller, args, issued, results, sock, local_ip>>

IpOutcomes == {"socket_fails", "connect_fails", "getsockname_fails", "ok"}

\* get_local_ip without its except clause: a lookup error leaves main()
\* as an uncaught exception.
get_local_ip_raises ==
    /\ pc = "get_local_ip"
    /\ \E outcome \in IpOutcomes :
        IF outcome = "ok"
        THEN /\ sock' = "closed"
             /\ local_ip' = "addr"
             /\ pc' = "runserver_all"
             /\ printed' = Append(printed, "You can access the server")
             /\ UNCHANGED <<exitStatus, exitCause>>
        ELSE /\ sock' \in (IF outcome = "socket_fails" THEN {"none"} ELSE {"open", "closed"})
             /\ UNCHANGED local_ip
             /\ UncaughtException
    /\ UNCHANGED <<argv, venvExists, caller, args, locals, asked, issued, results>>

\* get_local_ip (46-56) and the report of its result (91-95).  s.close() is
\* reached only when connect and getsockname both succeed; on the except
\* path the socket object is dropped unclosed, and whether the runtime has
\* finalized it by the return is implementation-dependent.
get_local_ip ==
    /\ pc = "get_local_ip"
    /\ \E outcome \in IpOutcomes :
        CASE outcome = "ok" ->
                /\ sock' = "closed"
                /\ local_ip' = "addr"
                /\ printed' = Append(printed, "You can access the server")
          [] outcome = "socket_fails" ->
                /\ sock' = "none"
                /\ local_ip' = "None"
                /\ printed' = Append(printed, "Unable to determine the local IP address")
          [] OTHER ->
                /\ sock' \in {"open", "closed"}
                /\ local_ip' = "None"
                /\ printed' = Append(printed, "Unable to determine the local IP address")
    /\ pc' = "runserver_all"
    /\ UNCHANGED <<argv, venvExists, caller, args, locals, asked, issued, results,
                   exitStatus, exitCause>>

\* line 96
runserver_all ==
    /\ pc = "runserver_all"
    /\ run_command(ManageCmd("runserver 0.0.0.0:80", args.project_dir), ReturnFromLauncher)
    /\ UNCHANGED <<argv, venvExists, caller, args, locals, asked, sock, local_ip>>

\* line 98
runserver ==
    /\ pc = "runserver"
    /\ run_command(ManageCmd("runserver", args.project_dir), ReturnFromLauncher)
    /\ UNCHANGED <<argv, venvExists, caller, args, locals, asked, sock, local_ip>>

Next ==
    \/ parse_args
    \/ check_venv
    \/ ask_reinstall
    \/ ask_run_anyway
    \/ create_virtual_environment
    \/ activate_virtual_environment
    \/ install_dependencies
    \/ makemigrations
    \/ migrate
    \/ collectstatic
    \/ ask_start
    \/ ask_expose
    \/ get_local_ip
    \/ runserver_all
    \/ runserver

Spec == Init /\ [][Next]_vars

TypeOK ==
    /\ pc \in {"parse_args", "check_venv", "ask_reinstall", "ask_run_anyway", "create",
               "activate", "install", "makemigrations", "migrate", "collectstatic",
               "ask_start", "ask_expose", "get_local_ip", "runserver_all", "runserver",
               "exited"}
    /\ Len(results) = Len(issued)
    /\ (pc = "exited") = (exitStatus # << >>)

----------------------------------------------------------------------------
(* Vocabulary of the properties *)

Exited == pc = "exited"

IsYes(a) == a \in {<<"y">>, <<"Y">>}

IsNo(a) == a \in {<<"n">>, <<"N">>}

Answered(v) == Bound(v)

Accepted(v) == Bound(v) /\ IsYes(locals[v])

Declined(v) == Bound(v) /\ ~IsYes(locals[v])

Prefix(s, t) == Len(s) <= Len(t) /\ \A i \in DOMAIN s : s[i] = t[i]

OpIssued(o) == \E i \in DOMAIN issued : issued[i].op = o

AllSucceeded == \A i \in DOMAIN results : results[i] = "ok"

SomeFailed == \E i \in DOMAIN results : results[i] = "fail"

LaunchOps == {"runserver", "runserver 0.0.0.0:80"}

Launches == {i \in DOMAIN issued : issued[i].op \in LaunchOps}

WellFormedArgv == Len(argv) = 2 /\ \A i \in DOMAIN argv : argv[i] # "-h"

Bootstrap(p) ==
    <<ManageCmd("makemigrations", p), ManageCmd("migrate", p), ManageCmd("collectstatic", p)>>

\* The optional tail of a run: no launch, or one launch of either binding.
LaunchTails(p) == {<< >>} \cup {<<ManageCmd(o, p)>> : o \in LaunchOps}

ProvisionWithActivate(r, p) == <<CreateCmd, ActivateCmd, InstallCmd(r)>> \o Bootstrap(p)

ProvisionAsClaimed(r, p) == <<CreateCmd, InstallCmd(r)>> \o Bootstrap(p)

\* issued is the sequence full, followed by a launch exactly when the
\* start-server prompt was accepted, and is complete on normal completion.
RunIs(full, p) ==
    /\ \E tail \in LaunchTails(p) : Prefix(issued, full \o tail)
    /\ Len(issued) > Len(full) => Accepted("start_server")
    /\ exitCause = "completed" =>
           Len(issued) = Len(full) + (IF Accepted("start_server") THEN 1 ELSE 0)

----------------------------------------------------------------------------
(* C1 *)

\* C1 as stated: with no environment at start, the commands issued are
\* create, install(R), makemigrations(P), migrate(P), collectstatic(P) and
\* then runserver(P) only if the start prompt is accepted; nothing else.
C1_AsClaimed ==
    (WellFormedArgv /\ ~venvExists) => RunIs(ProvisionAsClaimed(argv[1], argv[2]), argv[2])

\* C1 amended: with no environment at start, the commands issued are exactly
\* create, activate, install(R), makemigrations(P), migrate(P),
\* collectstatic(P), then runserver(P) only if the start prompt is accepted.
C1_SequenceWithActivate ==
    /\ (WellFormedArgv /\ ~venvExists) =>
           RunIs(ProvisionWithActivate(argv[1], argv[2]), argv[2])
    /\ ~WellFormedArgv => issued = << >>

C1_Witness ==
    /\ ~venvExists
    /\ exitCause = "completed"
    /\ AllSucceeded
    /\ Len(issued) = 7

----------------------------------------------------------------------------
(* C2 *)

\* C2: a failed command is the last command of the run and the process has
\* ended with status 1; so after a failed makemigrations neither migrate nor
\* collectstatic is issued, and after a failed migrate no collectstatic.
C2_FailureIsFatal ==
    \A i \in DOMAIN results :
        results[i] = "fail" =>
            /\ i = Len(issued)
            /\ Exited
            /\ exitStatus = <<1>>
            /\ issued[i].op = "makemigrations" => ~OpIssued("migrate") /\ ~OpIssued("collectstatic")
            /\ issued[i].op = "migrate" => ~OpIssued("collectstatic")

C2_Witness ==
    /\ Exited
    /\ Len(issued) = 5
    /\ issued[5].op = "migrate"
    /\ results[5] = "fail"

----------------------------------------------------------------------------
(* C3 *)

\* C3: environment exists, reinstall declined ('n'/'N'), run-anyway declined:
\* the process has ended with status 0, no command was issued and the
\* start-server prompt was never asked.
C3_DeclineBoth ==
    (/\ venvExists
     /\ Answered("reinstall_project") /\ IsNo(locals["reinstall_project"])
     /\ Declined("run_management_commands"))
    => /\ Exited
       /\ exitStatus = <<0>>
       /\ issued = << >>
       /\ \A i \in DOMAIN asked : asked[i] \notin {"start_server", "expose_to_network"}

C3_Witness ==
    /\ venvExists
    /\ Answered("reinstall_project") /\ locals["reinstall_project"] = <<"N">>
    /\ Answered("run_management_commands") /\ locals["run_management_commands"] = <<"n", "o">>
    /\ exitStatus = <<0>>

----------------------------------------------------------------------------
(* C4 *)

CreatedBefore(i) == \E j \in 1..(i - 1) : issued[j] = CreateCmd /\ results[j] = "ok"

\* C4: an install command is only issued after a create-environment command
\* that succeeded; with no environment at start the first command is
\* create-environment; a bootstrap command without a create before it occurs
\* only on the skip branch, which issues no install.
C4_ProvisionBeforeInstall ==
    /\ \A i \in DOMAIN issued : issued[i].op = "pip_install" => CreatedBefore(i)
    /\ (~venvExists /\ issued # << >>) => issued[1] = CreateCmd
    /\ \A i \in DOMAIN issued :
           (issued[i].op \in {"makemigrations", "migrate", "collectstatic"} /\ ~CreatedBefore(i))
           => /\ caller = "skip"
              /\ Accepted("run_management_commands")
              /\ ~OpIssued("pip_install")

C4_Witness ==
    /\ venvExists
    /\ OpIssued("pip_install")
    /\ OpIssued("collectstatic")

----------------------------------------------------------------------------
(* C5 *)

\* C5: once start and expose are both accepted, the run is either still in
\* the lookup, or about to launch, or has issued runserver 0.0.0.0:80; a
\* failed lookup yields no address and ends nothing.
C5_LaunchDespiteLookupFailure ==
    (Accepted("start_server") /\ Accepted("expose_to_network")) =>
        /\ \/ pc = "get_local_ip" /\ local_ip = "unset"
           \/ pc = "runserver_all" /\ exitStatus = << >> /\ local_ip # "unset"
           \/ Exited /\ issued # << >> /\ issued[Len(issued)].op = "runserver 0.0.0.0:80"
        /\ sock \in {"none", "open"} /\ pc # "get_local_ip" => local_ip = "None"

C5_Witness ==
    /\ Accepted("start_server") /\ Accepted("expose_to_network")
    /\ local_ip = "None"
    /\ OpIssued("runserver 0.0.0.0:80")

----------------------------------------------------------------------------
(* C6 *)

\* C6 as stated: once get_local_ip has returned, its socket is not open,
\* whether the lookup succeeded or failed.
C6_SocketClosedOnReturn == local_ip # "unset" => sock # "open"

----------------------------------------------------------------------------
(* C7 *)

\* C7 as stated: a run ends with status 0 or 1 only, and with 1 exactly when
\* a command failed or a KeyboardInterrupt arrived.
C7_AsClaimed ==
    Exited =>
        /\ exitStatus \in {<<0>>, <<1>>}
        /\ exitStatus = <<1>> <=> (SomeFailed \/ exitCause = "interrupt")

\* C7 amended: a run ends with status 0, 1 or 2: 2 exactly when the argument
\* parser rejects the command line; 1 exactly when a command failed, a
\* KeyboardInterrupt arrived in main(), or a prompt hit end of input; 0 on
\* normal completion, the skip exit and --help.
C7_ExitStatus ==
    Exited =>
        /\ exitStatus \in {<<0>>, <<1>>, <<2>>}
        /\ exitStatus = <<2>> <=> exitCause = "usage"
        /\ exitStatus = <<1>> <=> exitCause \in {"command_failed", "interrupt", "uncaught"}
        /\ exitStatus = <<0>> <=> exitCause \in {"completed", "skip_completed", "help"}
        /\ exitCause = "usage" => ~WellFormedArgv /\ issued = << >> /\ asked = << >>
        /\ exitCause = "command_failed" <=> SomeFailed
        /\ exitCause = "uncaught" => asked # << >> /\ ~Bound(asked[Len(asked)])
        /\ exitCause = "help" => argv = <<"-h">>

C7_Witness ==
    /\ exitStatus = <<2>>
    /\ Len(argv) = 3

----------------------------------------------------------------------------
(* C8 *)

\* C8: for a run that has ended, runserver 0.0.0.0:80 was issued iff start
\* and expose were both answered 'y'/'Y'; plain runserver iff start was
\* 'y'/'Y' and expose was any other string; a start answer other than
\* 'y'/'Y' ends the run at once with status 0 and a success report, without
\* a launch and without the expose prompt; at most one launch per run.
C8_LauncherByAnswers ==
    /\ Exited =>
        /\ OpIssued("runserver 0.0.0.0:80")
               <=> (Accepted("start_server") /\ Accepted("expose_to_network"))
        /\ OpIssued("runserver")
               <=> (Accepted("start_server") /\ Declined("expose_to_network"))
    /\ Declined("start_server") <=>
           /\ Answered("start_server")
           /\ Exited
           /\ exitStatus = <<0>>
           /\ Launches = {}
    /\ Declined("start_server") =>
           /\ \A i \in DOMAIN asked : asked[i] # "expose_to_network"
           /\ printed # << >>
           /\ printed[Len(printed)] \in
                  {"Setup and server run completed successfully!",
                   "Setup completed without reinstalling the project."}
    /\ Cardinality(Launches) <= 1

C8_Witness ==
    /\ Exited
    /\ Answered("start_server") /\ locals["start_server"] = <<"y">>
    /\ Answered("expose_to_network") /\ locals["expose_to_network"] = <<"Y">>
    /\ OpIssued("runserver 0.0.0.0:80")

----------------------------------------------------------------------------
(* C9 *)

\* C9: environment exists, reinstall declined, run-anyway accepted: the
\* commands issued are makemigrations, migrate, collectstatic in that order
\* and then at most one runserver; never create or install; and when every
\* issued command succeeded and every prompt asked was answered, a run that
\* has ended ended with status 0 after the three commands.
C9_SkipBranchRunsBootstrapOnly ==
    (/\ venvExists
     /\ Answered("reinstall_project") /\ IsNo(locals["reinstall_project"])
     /\ Accepted("run_management_commands"))
    => /\ \E tail \in LaunchTails(argv[2]) : Prefix(issued, Bootstrap(argv[2]) \o tail)
       /\ Len(issued) > 3 => Accepted("start_server")
       /\ ~OpIssued("venv") /\ ~OpIssued("activate") /\ ~OpIssued("pip_install")
       /\ (Exited /\ AllSucceeded /\ \A i \in DOMAIN asked : Bound(asked[i]))
          => /\ exitStatus = <<0>>
             /\ Len(issued) = 3 + (IF Accepted("start_server") THEN 1 ELSE 0)

C9_Witness ==
    /\ venvExists
    /\ Answered("reinstall_project") /\ IsNo(locals["reinstall_project"])
    /\ Accepted("run_management_commands")
    /\ Exited
    /\ AllSucceeded
    /\ Len(issued) = 4

----------------------------------------------------------------------------
(* C10 *)

WasAsked(v) == \E i \in DOMAIN asked : asked[i] = v

\* C10: with an existing environment the run-anyway prompt is reached iff
\* the reinstall answer is 'n'/'N'; any other answer goes on to
\* create-environment and the provisioning sequence.  The run-anyway and
\* start prompts go the other way: any answer but 'y'/'Y' is a refusal.
C10_ReinstallDecidedOnNegative ==
    /\ (venvExists /\ Answered("reinstall_project")) =>
        IF IsNo(locals["reinstall_project"])
        THEN /\ pc = "ask_run_anyway" \/ WasAsked("run_management_commands")
             /\ ~OpIssued("venv")
        ELSE /\ ~WasAsked("run_management_commands")
             /\ pc = "create" \/ (issued # << >> /\ issued[1] = CreateCmd)
             /\ RunIs(ProvisionWithActivate(argv[1], argv[2]), argv[2])
    /\ Declined("run_management_commands") => issued = << >> /\ Exited
    /\ Declined("start_server") => Launches = {} /\ Exited

C10_Witness ==
    /\ venvExists
    /\ Answered("reinstall_project") /\ locals["reinstall_project"] = << >>
    /\ exitCause = "completed"
    /\ Len(issued) = 6

====
